---------------------------- MODULE Spec2Model ----------------------------
(***************************************************************************)
(* things2reminder: export of Things todos to Apple Reminders.             *)
(*                                                                         *)
(* Four specifications share the variables below.                          *)
(*   Spec        one run of ThingsToRemindersExporter.export_todos         *)
(*   SpecParse   the calendar-assignment parsing of a classifier reply     *)
(*   SpecSelect  the task selection of export_with_options                 *)
(*   SpecMapper  ThingsToRemindersMapper.get_reminder_params_from_todo     *)
(*                                                                         *)
(* The classifier reply and the calendar names are sequences of            *)
(* one-character strings, so that strip, lower, split and int are computed *)
(* character by character.                                                 *)
(*                                                                         *)
(* export_todos reads llm_tagging_result at line 182, a name no executed   *)
(* line assigns: every run over a non-empty list leaves the function there *)
(* with NameError, and the loop of lines 193-247 over the batch's todos is *)
(* never entered.  create_calls and created_reminders therefore keep their *)
(* initial values in every behaviour of Spec.                              *)
(***************************************************************************)
EXTENDS Integers, Sequences, FiniteSets, TLC

VARIABLES
    pc,                    \* position of the run
    error,                 \* exception that left the run, "none" if none
    todos,                 \* export_todos: the list being exported
    default_calendar,      \* export_todos: default_calendar (None before lookup)
    calendars,             \* export_todos: result of list_calendars()
    calendar_dict,         \* export_todos: lower-cased name -> calendar id
    calendar_keys,         \* insertion order of calendar_dict's keys
    i,                     \* export_todos: batch offset of range(0, len, batch_size)
    llm_calls,             \* number of subprocess.run(["llm", ...]) invocations
    calendar_names_result, \* CompletedProcess of the classifier call
    calendar_assignments,  \* export_todos: index -> calendar name of the batch
    warnings,              \* reply lines logged by logger.warning while parsing
    create_calls,          \* params of every reminders.create_reminder call
    created_reminders,     \* export_todos: created_reminders
    opts,                  \* export_with_options: its keyword arguments
    tag_map,               \* exporter._tag_map
    todos_to_export,       \* export_with_options: todos_to_export
    todo_uuids,            \* export_with_options: todo_uuids
    fetched,               \* list the last completed/canceled query returned
    offered,               \* identifiers the view and default queries returned
    queried,               \* names of the source queries performed so far
    todo,                  \* mapper: the todo dictionary
    params,                \* mapper: the returned parameter dictionary
    call,                  \* RemindersClient.create_reminder: its arguments
    remind_calls,          \* calls made on the RemindKit object, in order
    result,                \* calendar or reminder a client method holds
    args,                  \* cli.main: the parsed command line
    checked,               \* cli.main: how the setup check went
    entry,                 \* cli.main: the exporter call it made and its outcome
    exit_code,             \* cli.main: its return value
    area_map,              \* exporter._area_map
    project_map,           \* exporter._project_map
    things_calls           \* metadata queries made on the source, in order

vars == <<pc, error, todos, default_calendar, calendars, calendar_dict,
          calendar_keys, i, llm_calls, calendar_names_result,
          calendar_assignments, warnings, create_calls, created_reminders,
          opts, tag_map, todos_to_export, todo_uuids, fetched, offered,
          queried,
          todo, params,
          call, remind_calls, result, args, checked, entry, exit_code,
          area_map, project_map, things_calls>>

exportVars == <<todos, default_calendar, calendars, calendar_dict,
                calendar_keys, i, llm_calls, calendar_names_result,
                calendar_assignments, warnings, create_calls,
                created_reminders>>
selectVars == <<opts, tag_map, todos_to_export, todo_uuids, fetched, offered,
                queried>>
mapperVars == <<todo, params>>
clientVars == <<call, remind_calls, result>>
cliVars == <<args, checked, entry, exit_code>>
metaVars == <<area_map, project_map, things_calls>>

None == "None"
EmptyMap == [x \in {} |-> 0]

(***************************************************************************)
(* Bounds                                                                  *)
(***************************************************************************)
MaxLines == 2        \* lines of a classifier reply
MaxTodos == 2        \* length of a short todo list
MaxView == 1         \* length of the list a source query returns

(***************************************************************************)
(* Text helpers (Python str methods)                                       *)
(***************************************************************************)
Whitespace == {" ", "\n"}
Digits == <<"0", "1", "2", "3", "4", "5", "6", "7", "8", "9">>
DigitChars == {Digits[k] : k \in 1..10}

\* str.lower() of one character
LowerChar(c) ==
    CASE c = "A" -> "a"
      [] c = "B" -> "b"
      [] c = "Z" -> "z"
      [] OTHER -> c

\* str.lower()
Lower(s) == [k \in 1..Len(s) |-> LowerChar(s[k])]

\* str.strip(): drop leading and trailing whitespace
Strip(s) ==
    LET keep == {k \in 1..Len(s) : s[k] \notin Whitespace}
    IN  IF keep = {} THEN <<>>
        ELSE LET lo == CHOOSE k \in keep : \A m \in keep : k <= m
                 hi == CHOOSE k \in keep : \A m \in keep : k >= m
             IN  SubSeq(s, lo, hi)

\* c in s
Contains(s, c) == \E k \in 1..Len(s) : s[k] = c

\* position of the first occurrence of c in s (s contains c)
FirstIndex(s, c) == CHOOSE k \in 1..Len(s) : s[k] = c /\ \A m \in 1..(k-1) : s[m] # c

\* str.split(c): the pieces between the occurrences of c
RECURSIVE Split(_, _)
Split(s, c) ==
    IF ~Contains(s, c) THEN <<s>>
    ELSE LET p == FirstIndex(s, c)
         IN  <<SubSeq(s, 1, p - 1)>> \o Split(SubSeq(s, p + 1, Len(s)), c)

\* str.split(c, 1) of a string that contains c: [left, right]
SplitFirst(s, c) ==
    LET p == FirstIndex(s, c)
    IN  <<SubSeq(s, 1, p - 1), SubSeq(s, p + 1, Len(s))>>

DigitValue(c) == (CHOOSE k \in 1..10 : Digits[k] = c) - 1

RECURSIVE DigitsValue(_)
DigitsValue(s) ==
    IF s = <<>> THEN 0
    ELSE 10 * DigitsValue(SubSeq(s, 1, Len(s) - 1)) + DigitValue(s[Len(s)])

\* the text int() is given after its own whitespace stripping, sign removed
IntBody(s) ==
    LET t == Strip(s)
    IN  IF t # <<>> /\ t[1] \in {"-", "+"} THEN Tail(t) ELSE t

\* int(s) succeeds (no ValueError): optional sign, then decimal digits only
IntOk(s) ==
    /\ IntBody(s) # <<>>
    /\ \A k \in 1..Len(IntBody(s)) : IntBody(s)[k] \in DigitChars

\* int(s) where IntOk(s)
IntValue(s) ==
    LET t == Strip(s)
    IN  IF t[1] = "-" THEN 0 - DigitsValue(IntBody(s)) ELSE DigitsValue(IntBody(s))


(***************************************************************************)
(* Small maps (Python dict)                                                *)
(***************************************************************************)
\* d[k] = v
Put(d, k, v) == [x \in (DOMAIN d) \cup {k} |-> IF x = k THEN v ELSE d[x]]

\* d.get(k, dflt)
Get(d, k, dflt) == IF k \in DOMAIN d THEN d[k] ELSE dflt

InSeq(s, x) == \E k \in 1..Len(s) : s[k] = x

(***************************************************************************)
(* The destination: calendars of the Reminders service                     *)
(***************************************************************************)
CalA == [id |-> "c1", name |-> <<"a">>]
CalB == [id |-> "c2", name |-> <<"B">>]
CalZ == [id |-> "c3", name |-> <<"A">>]
Calendars == {CalA, CalB, CalZ}

\* what list_calendars() may return: any listing of distinct calendars
CalendarListings ==
    {<<>>} \cup {<<c>> : c \in Calendars}
           \cup {l \in [1..2 -> Calendars] : l[1] # l[2]}

\* calendar_dict of exporter.py: later calendars overwrite equal lower-cased names
RECURSIVE BuildCalendarDict(_)
BuildCalendarDict(cals) ==
    IF cals = <<>> THEN EmptyMap
    ELSE LET c == cals[Len(cals)]
         IN  Put(BuildCalendarDict(SubSeq(cals, 1, Len(cals) - 1)), Lower(c.name), c.id)

\* list(calendar_dict.keys()): keys in order of first insertion
RECURSIVE BuildCalendarKeys(_)
BuildCalendarKeys(cals) ==
    IF cals = <<>> THEN <<>>
    ELSE LET before == BuildCalendarKeys(SubSeq(cals, 1, Len(cals) - 1))
             key == Lower(cals[Len(cals)].name)
         IN  IF InSeq(before, key) THEN before ELSE Append(before, key)

(***************************************************************************)
(* The classifier reply and its parsing (exporter.py 167-178)              *)
(***************************************************************************)
\* stdout.strip().split('\n')
ReplyLines(stdout) == Split(Strip(stdout), "\n")

\* one iteration of the parsing loop: acc = [assignments, warnings]
ParseLineSkipMembership(acc, line, dict) ==
    IF ~Contains(line, ":") THEN acc
    ELSE LET parts == SplitFirst(line, ":")
         IN  IF ~IntOk(parts[1])
             THEN [acc EXCEPT !.warnings = Append(@, line)]
             ELSE LET name == Lower(Strip(parts[2]))
                  IN  [acc EXCEPT !.assignments = Put(@, IntValue(parts[1]), name)]

ParseLine(acc, line, dict) ==
    IF ~Contains(line, ":") THEN acc
    ELSE LET parts == SplitFirst(line, ":")
         IN  IF ~IntOk(parts[1])
             THEN [acc EXCEPT !.warnings = Append(@, line)]
             ELSE LET index == IntValue(parts[1])
                      name == Lower(Strip(parts[2]))
                  IN  IF name \in DOMAIN dict
                      THEN [acc EXCEPT !.assignments = Put(@, index, name)]
                      ELSE acc

RECURSIVE ParseLines(_, _)
ParseLines(lines, dict) ==
    IF lines = <<>> THEN [assignments |-> EmptyMap, warnings |-> <<>>]
    ELSE ParseLine(ParseLines(SubSeq(lines, 1, Len(lines) - 1), dict),
                   lines[Len(lines)], dict)

\* calendar_assignments after the loop over the reply's lines
ParseCalendarAssignments(stdout, dict) == ParseLines(ReplyLines(stdout), dict)

(***************************************************************************)
(* Inputs: replies of the classifier                                       *)
(***************************************************************************)
Lefts == {<<"0">>, <<" ", "1", " ">>, <<"-", "1">>, <<"x">>, <<>>}
Rights == {<<" ", "a">>, <<"B", " ">>, <<"z">>, <<"a", ":", "b">>}
Lines == {l \o <<":">> \o r : l \in Lefts, r \in Rights} \cup {<<>>, <<"z", "z">>}

RECURSIVE JoinLines(_)
JoinLines(ls) ==
    IF Len(ls) = 1 THEN ls[1]
    ELSE JoinLines(SubSeq(ls, 1, Len(ls) - 1)) \o <<"\n">> \o ls[Len(ls)]

\* every reply of 1..n lines, with the trailing newline a process prints
Outputs(n) ==
    {JoinLines(ls) \o <<"\n">> : ls \in UNION {[1..k -> Lines] : k \in 1..n}}


(***************************************************************************)
(* Source tasks.  uuid 0 stands for a todo without 'uuid' (todo.get gives  *)
(* None); tags is the list of tag identifiers, <<>> when absent.           *)
(***************************************************************************)
NoUuid == 0
batch_size == 300

Task(u, tg) == [uuid |-> u, tags |-> tg]

ExportTasks == {Task(1, <<>>), Task(2, <<"t1">>), Task(NoUuid, <<>>)}

\* a long listing of n untagged todos with identifiers 1..n
LongList(n) == [k \in 1..n |-> Task(k, <<>>)]

\* the lists export_todos is run on: every short list, and lists that fill
\* one batch exactly and by one more
TodoLists ==
    UNION {[1..k -> ExportTasks] : k \in 0..MaxTodos}
        \cup {LongList(batch_size), LongList(batch_size + 1)}

(***************************************************************************)
(* export_todos (exporter.py 110-249)                                      *)
(***************************************************************************)
NoResult == [returncode |-> 0, stdout |-> <<>>]

InitExport ==
    /\ default_calendar = None
    /\ calendars = <<>>
    /\ calendar_dict = EmptyMap
    /\ calendar_keys = <<>>
    /\ i = 0
    /\ llm_calls = 0
    /\ calendar_names_result = NoResult
    /\ calendar_assignments = EmptyMap
    /\ warnings = <<>>
    /\ create_calls = <<>>
    /\ created_reminders = <<>>

InitSelect ==
    /\ opts = None
    /\ tag_map = EmptyMap
    /\ todos_to_export = <<>>
    /\ todo_uuids = {}
    /\ fetched = <<>>
    /\ offered = {}
    /\ queried = {}

InitMapper ==
    /\ todo = None
    /\ params = None

InitClient ==
    /\ call = None
    /\ remind_calls = <<>>
    /\ result = <<>>

InitCli ==
    /\ args = None
    /\ checked = None
    /\ entry = <<>>
    /\ exit_code = <<>>

\* lines 40-41
InitMeta ==
    /\ area_map = EmptyMap
    /\ project_map = EmptyMap
    /\ things_calls = <<>>

Init ==
    /\ pc = "start"
    /\ error = "none"
    /\ todos \in TodoLists
    /\ InitExport
    /\ InitSelect
    /\ InitMapper
    /\ InitClient
    /\ InitCli
    /\ InitMeta

Raise(e) ==
    /\ pc' = "raised"
    /\ error' = e

\* line 128: self._get_default_calendar() returns the destination's default
GetDefaultCalendar ==
    /\ pc = "start"
    /\ \E c \in Calendars : default_calendar' = c
    /\ pc' = "list_calendars"
    /\ UNCHANGED <<error, todos, calendars, calendar_dict, calendar_keys, i,
                   llm_calls, calendar_names_result, calendar_assignments,
                   warnings, create_calls, created_reminders>>
    /\ UNCHANGED <<selectVars, mapperVars, clientVars, cliVars, metaVars>>

\* line 128 as if the failed lookup were logged and the run went on
GetDefaultCalendarFailsSwallowed ==
    /\ pc = "start"
    /\ error' = "ValueError"
    /\ pc' = "list_calendars"
    /\ UNCHANGED <<exportVars, selectVars, mapperVars, clientVars, cliVars, metaVars>>

\* line 128: RemindersClient.get_default_calendar raises ValueError when no
\* calendar can be found or created (reminders_client.py 74-77)
GetDefaultCalendarFails ==
    /\ pc = "start"
    /\ Raise("ValueError")
    /\ UNCHANGED <<exportVars, selectVars, mapperVars, clientVars, cliVars, metaVars>>

\* lines 131-134: list the calendars once and index them by lower-cased name
ListCalendars ==
    /\ pc = "list_calendars"
    /\ \E l \in CalendarListings :
         /\ calendars' = l
         /\ calendar_dict' = BuildCalendarDict(l)
         /\ calendar_keys' = BuildCalendarKeys(l)
    /\ pc' = "batch"
    /\ UNCHANGED <<error, todos, default_calendar, i, llm_calls,
                   calendar_names_result, calendar_assignments, warnings,
                   create_calls, created_reminders>>
    /\ UNCHANGED <<selectVars, mapperVars, clientVars, cliVars, metaVars>>

\* lines 138-156: the next batch exists; the llm process runs and returns a
\* CompletedProcess, whatever its exit status (no check=True)
RunClassifier ==
    /\ pc = "batch"
    /\ i < Len(todos)
    /\ llm_calls' = llm_calls + 1
    /\ \E rc \in {0, 1}, out \in Outputs(1) \cup {<<>>} :
         calendar_names_result' = [returncode |-> rc, stdout |-> out]
    /\ pc' = "parse_calendars"
    /\ UNCHANGED <<error, todos, default_calendar, calendars, calendar_dict,
                   calendar_keys, i, calendar_assignments, warnings,
                   create_calls, created_reminders>>
    /\ UNCHANGED <<selectVars, mapperVars, clientVars, cliVars, metaVars>>

\* lines 153-156: subprocess.run raises FileNotFoundError when there is no
\* llm executable; nothing catches it
RunClassifierMissing ==
    /\ pc = "batch"
    /\ i < Len(todos)
    /\ llm_calls' = llm_calls + 1
    /\ Raise("FileNotFoundError")
    /\ UNCHANGED <<todos, default_calendar, calendars, calendar_dict,
                   calendar_keys, i, calendar_names_result,
                   calendar_assignments, warnings, create_calls,
                   created_reminders>>
    /\ UNCHANGED <<selectVars, mapperVars, clientVars, cliVars, metaVars>>

\* lines 167-178: parse the reply into calendar_assignments
ParseCalendars ==
    /\ pc = "parse_calendars"
    /\ LET r == ParseCalendarAssignments(calendar_names_result.stdout, calendar_dict)
       IN  /\ calendar_assignments' = r.assignments
           /\ warnings' = r.warnings
    /\ pc' = "parse_tags"
    /\ UNCHANGED <<error, todos, default_calendar, calendars, calendar_dict,
                   calendar_keys, i, llm_calls, calendar_names_result,
                   create_calls, created_reminders>>
    /\ UNCHANGED <<selectVars, mapperVars, clientVars, cliVars, metaVars>>

\* lines 181-182: llm_tagging_result is assigned only in the commented-out
\* lines 162-165, so reading it raises NameError, which the handlers of
\* lines 177, 189 and 246 do not enclose
ParseTags ==
    /\ pc = "parse_tags"
    /\ Raise("NameError")
    /\ UNCHANGED <<exportVars, selectVars, mapperVars, clientVars, cliVars, metaVars>>

\* lines 138, 249: no batch is left; return created_reminders
ReturnCreated ==
    /\ pc = "batch"
    /\ i >= Len(todos)
    /\ pc' = "done"
    /\ UNCHANGED <<error, exportVars, selectVars, mapperVars, clientVars, cliVars, metaVars>>

Next ==
    \/ GetDefaultCalendar
    \/ GetDefaultCalendarFails
    \/ ListCalendars
    \/ RunClassifier
    \/ RunClassifierMissing
    \/ ParseCalendars
    \/ ParseTags
    \/ ReturnCreated

Spec == Init /\ [][Next]_vars


(***************************************************************************)
(* SpecParse: the parsing step of export_todos on every bounded reply      *)
(***************************************************************************)
InitParse ==
    /\ pc = "parse_calendars"
    /\ error = "none"
    /\ todos = <<Task(1, <<>>)>>
    /\ default_calendar = CalA
    /\ \E l \in CalendarListings :
         /\ calendars = l
         /\ calendar_dict = BuildCalendarDict(l)
         /\ calendar_keys = BuildCalendarKeys(l)
    /\ i = 0
    /\ llm_calls = 1
    /\ \E out \in Outputs(MaxLines) \cup {<<>>} :
         calendar_names_result = [returncode |-> 0, stdout |-> out]
    /\ calendar_assignments = EmptyMap
    /\ warnings = <<>>
    /\ create_calls = <<>>
    /\ created_reminders = <<>>
    /\ InitSelect
    /\ InitMapper
    /\ InitClient
    /\ InitCli
    /\ InitMeta

NextParse == ParseCalendars

SpecParse == InitParse /\ [][NextParse]_vars

(***************************************************************************)
(* Claims about export_todos                                               *)
(***************************************************************************)
Finished == pc \in {"done", "raised"}

\* the default-calendar lookup and the start of the classifier did not fail
CollaboratorsUp == error \notin {"ValueError", "FileNotFoundError"}

\* the k-th task of the list was handed to create_reminder
Submitted(k) == \E c \in 1..Len(create_calls) : create_calls[c].position = k

\* C1: for a non-empty task list, when the calendar lookups, the classifier
\* call and every reminder creation succeed, export_todos ends without raising
\* and returns exactly one created record per task, in list order.
C1_CompletesWithOneRecordPerTask ==
    (Finished /\ todos # <<>> /\ CollaboratorsUp
              /\ calendar_names_result.returncode = 0)
        => /\ pc = "done"
           /\ Len(created_reminders) = Len(todos)
           /\ \A k \in 1..Len(todos) : created_reminders[k].position = k

\* C2: whatever subset of creations raises, every task of the list is
\* submitted for creation, the run does not abort, and the returned list holds
\* exactly the records of the creations that succeeded.
C2_CreationFailuresAreIsolated ==
    (Finished /\ CollaboratorsUp)
        => /\ pc = "done"
           /\ \A k \in 1..Len(todos) : Submitted(k)
           /\ created_reminders =
                SelectSeq(create_calls, LAMBDA c : ~c.raised)

\* ceil(n / batch_size)
BatchCount(n) == (n + batch_size - 1) \div batch_size

\* C3: a run over n tasks invokes the classifier exactly ceil(n/300) times
\* (once per batch of at most 300 tasks), and never when n = 0.
C3_OneClassifierCallPerBatch ==
    (Finished /\ CollaboratorsUp) => llm_calls = BatchCount(Len(todos))

\* the reply gives no line of the form "<integer>: ..."
Unparseable(stdout) ==
    \A k \in 1..Len(ReplyLines(stdout)) :
        LET line == ReplyLines(stdout)[k]
        IN  ~Contains(line, ":") \/ ~IntOk(SplitFirst(line, ":")[1])

\* the classifier was missing, exited non-zero, or replied nothing usable
ClassifierUnusable ==
    \/ error = "FileNotFoundError"
    \/ /\ llm_calls > 0
       /\ pc \in {"parse_tags", "done", "raised"}
       /\ \/ calendar_names_result.returncode # 0
          \/ Unparseable(calendar_names_result.stdout)

\* C4: a classifier that is missing, fails to start, errors, or replies
\* nothing parseable is never fatal: the batch has no assignments, every task
\* is still submitted for creation and the run goes on.
C4_ClassifierFailureIsNeverFatal ==
    (Finished /\ ClassifierUnusable)
        => /\ pc = "done"
           /\ calendar_assignments = EmptyMap
           /\ \A k \in 1..Len(todos) : Submitted(k)

\* C11: when no default calendar exists and none can be found or created, the
\* failure leaves export_todos before any classifier invocation and before any
\* reminder-creation call: the run has stopped and nothing was created.
C11_NoCalendarStopsRunBeforeAnyCall ==
    (error = "ValueError")
        => /\ pc = "raised"
           /\ llm_calls = 0
           /\ calendars = <<>>
           /\ create_calls = <<>>
           /\ created_reminders = <<>>

\* the lookup failed in a run that had todos to export
C11_Witness ==
    /\ error = "ValueError"
    /\ pc = "raised"
    /\ todos # <<>>

\* the lower-cased names of the calendars the destination listed
AvailableNames == {Lower(calendars[k].name) : k \in 1..Len(calendars)}

\* line, split at its first colon, is <<left, right>>
SplitsAtFirstColon(line, left, right) ==
    \E p \in 1..Len(line) :
        /\ line[p] = ":"
        /\ \A q \in 1..(p - 1) : line[q] # ":"
        /\ left = SubSeq(line, 1, p - 1)
        /\ right = SubSeq(line, p + 1, Len(line))

\* some line of the reply assigns name to index
LineAssigns(stdout, index, name) ==
    \E k \in 1..Len(ReplyLines(stdout)) :
        LET line == ReplyLines(stdout)[k]
        IN  \E p \in 1..Len(line) :
                /\ SplitsAtFirstColon(line, SubSeq(line, 1, p - 1),
                                      SubSeq(line, p + 1, Len(line)))
                /\ IntOk(SubSeq(line, 1, p - 1))
                /\ IntValue(SubSeq(line, 1, p - 1)) = index
                /\ Lower(Strip(SubSeq(line, p + 1, Len(line)))) = name

\* C5: after parsing a reply, calendar_assignments maps index to name only if
\* some reply line, split at its first colon, has an integer left part equal
\* to index and a right part that, trimmed and lower-cased, is name and is an
\* available calendar name; no line makes the parsing raise.
C5_AssignmentsComeFromValidLines ==
    (pc = "parse_tags")
        => /\ error = "none"
           /\ \A index \in DOMAIN calendar_assignments :
                /\ calendar_assignments[index] \in AvailableNames
                /\ LineAssigns(calendar_names_result.stdout, index,
                               calendar_assignments[index])

\* a reply has been parsed in which one line was accepted and another line
\* was rejected: for an unknown name, a non-integer index or a missing colon
C5_Witness ==
    /\ pc = "parse_tags"
    /\ calendar_assignments # EmptyMap
    /\ \E k \in 1..Len(ReplyLines(calendar_names_result.stdout)) :
         LET line == ReplyLines(calendar_names_result.stdout)[k]
         IN  \/ ~Contains(line, ":")
             \/ ~IntOk(SplitFirst(line, ":")[1])
             \/ Lower(Strip(SplitFirst(line, ":")[2])) \notin AvailableNames

\* C8: a task without a valid classifier assignment for its index is created
\* in the calendar get_default_calendar returned, whatever the listing order.
C8_UnassignedTaskGoesToDefaultCalendar ==
    (Finished /\ CollaboratorsUp)
        => \A k \in 1..Len(todos) :
             ((k - 1) % batch_size) \notin DOMAIN calendar_assignments
                => \E c \in 1..Len(create_calls) :
                     /\ create_calls[c].position = k
                     /\ create_calls[c].calendar_id = default_calendar.id

\* C10: the tag list handed to create_reminder for a task is the task's own
\* tag identifier list (empty when it has none).
C10_TaskTagsArePreserved ==
    (Finished /\ CollaboratorsUp)
        => \A k \in 1..Len(todos) :
             \E c \in 1..Len(create_calls) :
                 /\ create_calls[c].position = k
                 /\ create_calls[c].tags = todos[k].tags

\* the classifier ran and its process exited with a non-zero status
ClassifierExitedNonZero ==
    /\ llm_calls > 0
    /\ error # "FileNotFoundError"
    /\ pc \in {"parse_tags", "done", "raised"}
    /\ calendar_names_result.returncode # 0

\* C23: when the classifier process exits with a non-zero status, no
\* assignment is recorded for the batch, whatever its standard output holds.
C23_NonZeroExitGivesNoAssignments ==
    ClassifierExitedNonZero => calendar_assignments = EmptyMap

\* index of the k-th task of the list within its batch
BatchIndex(k) == (k - 1) % batch_size

\* C24: the task at position j of its batch is created in the calendar whose
\* lower-cased name is the accepted assignment for index j of that batch's
\* reply.
C24_AssignmentsAreBatchLocal ==
    (Finished /\ CollaboratorsUp)
        => \A k \in 1..Len(todos) :
             (k <= i + batch_size /\ BatchIndex(k) \in DOMAIN calendar_assignments)
                => \E c \in 1..Len(create_calls) :
                     /\ create_calls[c].position = k
                     /\ create_calls[c].calendar_id
                          = calendar_dict[calendar_assignments[BatchIndex(k)]]

\* C25: within one run the creation collaborator is called exactly once for
\* each element of the task list, in list order, and a failed creation is
\* not tried again.
C25_EachTaskSubmittedOnceInOrder ==
    (Finished /\ CollaboratorsUp)
        => /\ Len(create_calls) = Len(todos)
           /\ \A c \in 1..Len(create_calls) : create_calls[c].position = c

\* C26: a task without identifier, which export_with_options never selects,
\* is submitted for creation by export_all and export_all_tasks, which hand
\* the source listing to export_todos as it is.
C26_TaskWithoutUuidIsSubmittedByExportAll ==
    (Finished /\ CollaboratorsUp)
        => \A k \in 1..Len(todos) : todos[k].uuid = NoUuid => Submitted(k)

\* C27: when the destination lists no calendar while a default calendar
\* exists, a run over a non-empty list fails while resolving the first task's
\* fallback calendar (the first key of an empty calendar_dict), and no
\* reminder is created.
C27_NoListedCalendarFailsAtFallback ==
    (Finished /\ CollaboratorsUp /\ todos # <<>> /\ calendars = <<>>)
        => /\ pc = "raised"
           /\ error = "IndexError"
           /\ create_calls = <<>>

\* number of tasks of the list that carry identifier u
Occurrences(u) == Cardinality({k \in 1..Len(todos) : todos[k].uuid = u})

\* number of creation calls made for tasks that carry identifier u
CreationsFor(u) ==
    Cardinality({c \in 1..Len(create_calls) :
                    todos[create_calls[c].position].uuid = u})

\* C30: export_all and export_all_tasks apply no de-duplication: an
\* identifier the source listing returns k times is submitted for creation k
\* times.
C30_DuplicatesAreSubmittedEachTime ==
    (Finished /\ CollaboratorsUp)
        => \A k \in 1..Len(todos) :
             CreationsFor(todos[k].uuid) = Occurrences(todos[k].uuid)

\* C22: a run passes through its phases in order: the calendars are looked up,
\* then batch after batch the classifier is invoked once and the tasks of the
\* batch are submitted for creation, until the list is exhausted.
C22_RunPassesThroughPhasesInOrder ==
    (Finished /\ CollaboratorsUp)
        => /\ pc = "done"
           /\ i >= Len(todos)
           /\ llm_calls = BatchCount(Len(todos))
           /\ \A k \in 1..Len(todos) :
                /\ Submitted(k)
                /\ \A c \in 1..Len(create_calls) :
                     create_calls[c].position = k
                        => create_calls[c].batch = (k - 1) \div batch_size


(***************************************************************************)
(* export_with_options: task selection (exporter.py 268-370)               *)
(***************************************************************************)
BOOL == {TRUE, FALSE}

Options ==
    [include_completed : BOOL, include_canceled : BOOL,
     only_with_deadlines : BOOL, only_today : BOOL, only_inbox : BOOL,
     only_upcoming : BOOL, only_someday : BOOL,
     completed_last : {None, "7d"}, filter_tag : {None, "work"}]

\* what a query of the source may return: todos with or without identifier,
\* with or without a tag; two queries may return the same identifier
SourceTasks == {Task(u, tg) : u \in {NoUuid, 1, 2}, tg \in {<<>>, <<"t1">>}}
\* every list of up to MaxView todos, and every list that returns one
\* identifier (or no identifier) twice
SourceLists ==
    UNION {[1..k -> SourceTasks] : k \in 0..MaxView}
        \cup {l \in [1..2 -> SourceTasks] : l[1].uuid = l[2].uuid}

\* what things.get_tags() may return
TagCatalogs ==
    {<<>>,
     <<[uuid |-> "t1", title |-> "work"]>>,
     <<[uuid |-> "t1", title |-> "home"], [uuid |-> "t2", title |-> "work"]>>}

\* process_tags (lines 94-102): tag uuid -> tag title
RECURSIVE BuildTagMap(_)
BuildTagMap(tags) ==
    IF tags = <<>> THEN EmptyMap
    ELSE Put(BuildTagMap(SubSeq(tags, 1, Len(tags) - 1)),
             tags[Len(tags)].uuid, tags[Len(tags)].title)

\* add_todos (lines 305-310) on acc = [list, uuids], without the test that
\* the identifier has not been seen
RECURSIVE AddTodosNoDedup(_, _)
AddTodosNoDedup(acc, todo_list) ==
    IF todo_list = <<>> THEN acc
    ELSE LET before == AddTodosNoDedup(acc, SubSeq(todo_list, 1, Len(todo_list) - 1))
             t == todo_list[Len(todo_list)]
         IN  IF t.uuid # NoUuid
             THEN [list |-> Append(before.list, t), uuids |-> before.uuids \cup {t.uuid}]
             ELSE before

\* add_todos (lines 305-310) on acc = [list, uuids]
RECURSIVE AddTodos(_, _)
AddTodos(acc, todo_list) ==
    IF todo_list = <<>> THEN acc
    ELSE LET before == AddTodos(acc, SubSeq(todo_list, 1, Len(todo_list) - 1))
             t == todo_list[Len(todo_list)]
         IN  IF t.uuid # NoUuid /\ t.uuid \notin before.uuids
             THEN [list |-> Append(before.list, t), uuids |-> before.uuids \cup {t.uuid}]
             ELSE before

\* lines 344-348 as if any tag known to the catalog matched, whatever its name
HasKnownTag(t, catalog, tag) ==
    \E k \in 1..Len(t.tags) : t.tags[k] \in DOMAIN catalog

\* lines 344-348: filter_tag is among the catalog names of the todo's tags
HasTag(t, catalog, tag) ==
    \E k \in 1..Len(t.tags) : t.tags[k] \in DOMAIN catalog /\ catalog[t.tags[k]] = tag

\* lines 342-350: the todos that carry the tag, in order
FilterByTag(list, catalog, tag) == SelectSeq(list, LAMBDA t : HasTag(t, catalog, tag))

InitSelectRun ==
    /\ pc = "metadata"
    /\ error = "none"
    /\ todos = <<>>
    /\ InitExport
    /\ opts \in Options
    /\ tag_map = EmptyMap
    /\ todos_to_export = <<>>
    /\ todo_uuids = {}
    /\ fetched = <<>>
    /\ offered = {}
    /\ queried = {}
    /\ InitMapper
    /\ InitClient
    /\ InitCli
    /\ InitMeta

\* one step of the selection: when enabled, query the source and add_todos;
\* a completed or canceled query (logged) leaves its result in fetched
ViewStep(here, enabled, next, logged) ==
    /\ pc = here
    /\ pc' = next
    /\ IF enabled
       THEN \E l \in SourceLists :
              LET r == AddTodos([list |-> todos_to_export, uuids |-> todo_uuids], l)
              IN  /\ fetched' = IF logged THEN l ELSE <<>>
                  /\ offered' = IF logged THEN offered
                                ELSE offered \cup {l[k].uuid : k \in 1..Len(l)}
                  /\ queried' = queried \cup {here}
                  /\ todos_to_export' = r.list
                  /\ todo_uuids' = r.uuids
       ELSE /\ fetched' = <<>>
            /\ UNCHANGED <<todos_to_export, todo_uuids, offered, queried>>
    /\ UNCHANGED <<error, exportVars, opts, tag_map, mapperVars, clientVars, cliVars, metaVars>>

\* lines 295-298: process_areas, process_projects, process_tags; the
\* selection reads only the tag catalog (the source of these runs holds no
\* area and no project)
LoadMetadata ==
    /\ pc = "metadata"
    /\ \E catalog \in TagCatalogs : tag_map' = BuildTagMap(catalog)
    /\ things_calls' = things_calls \o <<"get_areas", "get_projects", "get_tags">>
    /\ pc' = "today"
    /\ UNCHANGED <<error, exportVars, opts, todos_to_export, todo_uuids,
                   fetched, offered, queried, mapperVars, clientVars, cliVars,
                   area_map, project_map>>

\* lines 313-315
AddToday == ViewStep("today", opts.only_today, "inbox", FALSE)
\* lines 317-319
AddInbox == ViewStep("inbox", opts.only_inbox, "upcoming", FALSE)
\* lines 321-323
AddUpcoming == ViewStep("upcoming", opts.only_upcoming, "someday", FALSE)
\* lines 325-327
AddSomeday == ViewStep("someday", opts.only_someday, "deadlines", FALSE)
\* lines 329-331
AddDeadlines == ViewStep("deadlines", opts.only_with_deadlines, "default", FALSE)

\* lines 334-335 as if only_with_deadlines were not among the tested options
NoViewSelectedButDeadlines ==
    ~(opts.only_today \/ opts.only_inbox \/ opts.only_upcoming
        \/ opts.only_someday)

\* lines 334-335: no view option is set
NoViewSelected ==
    ~(opts.only_today \/ opts.only_inbox \/ opts.only_upcoming
        \/ opts.only_someday \/ opts.only_with_deadlines)

\* lines 333-337
AddAllActive == ViewStep("default", NoViewSelected, "filter", FALSE)

\* lines 339-350: the tag filter replaces the list and leaves todo_uuids alone
ApplyTagFilter ==
    /\ pc = "filter"
    /\ pc' = "completed"
    /\ todos_to_export' =
         IF opts.filter_tag # None
         THEN FilterByTag(todos_to_export, tag_map, opts.filter_tag)
         ELSE todos_to_export
    /\ fetched' = <<>>
    /\ UNCHANGED <<error, exportVars, opts, tag_map, todo_uuids, offered,
                   queried, mapperVars, clientVars, cliVars, metaVars>>

\* lines 352-359 as if a period alone asked for the completed todos
AddCompletedForPeriod ==
    ViewStep("completed", opts.include_completed \/ opts.completed_last # None,
             "canceled", TRUE)

\* lines 352-359 (completed_last only selects the period of the query)
AddCompleted == ViewStep("completed", opts.include_completed, "canceled", TRUE)
\* lines 361-364
AddCanceled == ViewStep("canceled", opts.include_canceled, "export", TRUE)

\* lines 366-368: hand the collected list to export_todos
ExportCollected ==
    /\ pc = "export"
    /\ pc' = "start"
    /\ todos' = todos_to_export
    /\ UNCHANGED <<error, default_calendar, calendars, calendar_dict,
                   calendar_keys, i, llm_calls, calendar_names_result,
                   calendar_assignments, warnings, create_calls,
                   created_reminders, selectVars, mapperVars, clientVars, cliVars, metaVars>>

NextSelect ==
    \/ LoadMetadata
    \/ AddToday
    \/ AddInbox
    \/ AddUpcoming
    \/ AddSomeday
    \/ AddDeadlines
    \/ AddAllActive
    \/ ApplyTagFilter
    \/ AddCompleted
    \/ AddCanceled
    \/ ExportCollected

SpecSelect == InitSelectRun /\ [][NextSelect]_vars

(***************************************************************************)
(* Claims about export_with_options                                        *)
(***************************************************************************)
NoDuplicateUuid(list) ==
    \A a, b \in 1..Len(list) : a # b => list[a].uuid # list[b].uuid

InList(list, u) == \E k \in 1..Len(list) : list[k].uuid = u

\* C6: whatever the options and the contents of the views, the list handed to
\* export_todos holds no two tasks with the same identifier.
C6_NoTaskSelectedTwice ==
    /\ NoDuplicateUuid(todos_to_export)
    /\ pc = "start" => todos = todos_to_export /\ NoDuplicateUuid(todos)

\* a view and the completed query returned the same identifier (the completed
\* query with other fields), and the list holds it once
C6_Witness ==
    /\ pc = "canceled"
    /\ opts.include_completed
    /\ Len(fetched) = 1 /\ fetched[1].uuid # NoUuid
    /\ Len(todos_to_export) = 1
    /\ todos_to_export[1].uuid = fetched[1].uuid
    /\ todos_to_export[1] # fetched[1]

\* C7: with a tag filter and include_completed (include_canceled) set, every
\* task the completed (canceled) query returned is in the export list, with or
\* without the tag.  Stated for the tasks that carry an identifier.
C7_CompletedBypassTagFilter ==
    /\ (pc = "canceled" /\ opts.filter_tag # None /\ opts.include_completed)
         => \A k \in 1..Len(fetched) :
              fetched[k].uuid # NoUuid => InList(todos_to_export, fetched[k].uuid)
    /\ (pc = "export" /\ opts.filter_tag # None /\ opts.include_canceled)
         => \A k \in 1..Len(fetched) :
              fetched[k].uuid # NoUuid => InList(todos_to_export, fetched[k].uuid)


\* the view queries of lines 313-331 and the option that enables each
Views == {"today", "inbox", "upcoming", "someday", "deadlines"}

ViewEnabled(v) ==
    CASE v = "today" -> opts.only_today
      [] v = "inbox" -> opts.only_inbox
      [] v = "upcoming" -> opts.only_upcoming
      [] v = "someday" -> opts.only_someday
      [] v = "deadlines" -> opts.only_with_deadlines

Uuids(list) == {list[k].uuid : k \in 1..Len(list)}

\* C12: the query for all active incomplete todos is made if and only if none
\* of the five view options is set, each view is queried if and only if its
\* option is set, and before the tag filter and the completed/canceled
\* additions the selected todos are the union by identifier of what the
\* queries made returned: every returned identifier once, nothing else.
C12_DefaultQueryIffNoViewAndUnionOfViews ==
    (pc = "filter") =>
        /\ ("default" \in queried) <=> (\A v \in Views : ~ViewEnabled(v))
        /\ \A v \in Views : (v \in queried) <=> ViewEnabled(v)
        /\ Uuids(todos_to_export) = offered \ {NoUuid}
        /\ NoDuplicateUuid(todos_to_export)

\* enabled views returned two identifiers and a todo without identifier: two
\* todos are selected and the default query was not made
C12_Witness ==
    /\ pc = "filter"
    /\ Cardinality({v \in Views : ViewEnabled(v)}) >= 2
    /\ "default" \notin queried
    /\ Len(todos_to_export) = 2
    /\ Cardinality(offered) = 3

\* lines 342-350, stated on the catalog: some tag identifier of the todo is in
\* the catalog under exactly the requested name
Retained(t) ==
    {id \in {t.tags[k] : k \in 1..Len(t.tags)} :
        id \in DOMAIN tag_map /\ tag_map[id] = opts.filter_tag} # {}

\* C13: with a tag filter set, the filter step keeps a selected todo if and
\* only if one of its tag identifiers is in the tag catalog under exactly the
\* requested name, in the order of selection; todos without tags or with
\* unknown tag identifiers only are removed.
C13_TagFilterKeepsExactlyTaggedTodos ==
    [][(pc = "filter" /\ opts.filter_tag # None)
          => todos_to_export' = SelectSeq(todos_to_export, Retained)]_vars

\* the filter kept one selected todo and removed another
C13_Witness ==
    /\ pc = "completed"
    /\ opts.filter_tag # None
    /\ Len(todos_to_export) = 1
    /\ todos_to_export[1].tags # <<>>
    /\ \E u \in offered \ {NoUuid} : ~InList(todos_to_export, u)

(***************************************************************************)
(* ThingsToRemindersMapper (mapper.py).  A todo dictionary is a record of  *)
(* optional fields: <<>> is a missing key, <<v>> a key with value v.  Text *)
(* built by f-strings and join is a sequence of the pieces put together.   *)
(***************************************************************************)
Has(f) == f # <<>>

\* todo.get(key, dflt)
Field(f, dflt) == IF Has(f) THEN f[1] ELSE dflt

\* truth value of todo.get(key) for a text field
Truthy(f) == Has(f) /\ f[1] # ""

\* truth value of todo.get(key) for a list field
TruthyList(f) == Has(f) /\ f[1] # <<>>

Footer == "Imported from Things - UUID: "
DoneMark == "U+2713"
OpenMark == "U+2610"

\* the date strings of the todos, and what datetime.fromisoformat gives for
\* them once 'Z' is replaced by '+00:00'; <<>> (None) where it raises
\* ValueError, <<d>> for the datetime d
\* parse_things_date (lines 44-54)
parse_things_date(f) ==
    IF ~Truthy(f) THEN <<>>
    ELSE CASE f[1] = "2023-10-15T14:30:00Z" ->
                  <<[year |-> 2023, month |-> 10, day |-> 15, hour |-> 14, minute |-> 30]>>
           [] f[1] = "2023-03-01" ->
                  <<[year |-> 2023, month |-> 3, day |-> 1, hour |-> 0, minute |-> 0]>>
           [] f[1] = "2024-03-01" ->
                  <<[year |-> 2024, month |-> 3, day |-> 1, hour |-> 0, minute |-> 0]>>
           [] OTHER -> <<>>

\* date_obj.strftime("%Y-%m-%d")
Pad2(n) == IF n < 10 THEN <<"0", ToString(n)>> ELSE <<ToString(n)>>

Strftime(d) == <<ToString(d.year), "-">> \o Pad2(d.month) \o <<"-">> \o Pad2(d.day)

DaysInMonth(y, m) ==
    IF m = 2 THEN (IF y % 4 = 0 /\ (y % 100 # 0 \/ y % 400 = 0) THEN 29 ELSE 28)
    ELSE IF m \in {4, 6, 9, 11} THEN 30 ELSE 31

\* due_date - timedelta(days=1) as if the day number were decremented without
\* borrowing from the month
DayBeforeNoBorrow(d) == [d EXCEPT !.day = IF @ > 1 THEN @ - 1 ELSE 1]

\* due_date - timedelta(days=1)
DayBefore(d) ==
    IF d.day > 1 THEN [d EXCEPT !.day = @ - 1]
    ELSE IF d.month > 1
         THEN [d EXCEPT !.month = @ - 1, !.day = DaysInMonth(d.year, d.month - 1)]
         ELSE [d EXCEPT !.year = @ - 1, !.month = 12, !.day = 31]

\* map_priority (lines 25-31) as if levels above 3 were clamped to HIGH
map_priority_clamped(p) ==
    CASE p = <<0>> -> "NONE"
      [] p = <<1>> -> "LOW"
      [] p = <<2>> -> "MEDIUM"
      [] p # <<>> /\ p[1] >= 3 -> "HIGH"
      [] OTHER -> "NONE"

\* map_priority (lines 25-31): priority_map.get(things_priority, Priority.NONE);
\* the argument is <<>> for None and <<n>> for the integer n
map_priority(p) ==
    CASE p = <<0>> -> "NONE"
      [] p = <<1>> -> "LOW"
      [] p = <<2>> -> "MEDIUM"
      [] p = <<3>> -> "HIGH"
      [] OTHER -> "NONE"

\* sep.join(parts)
RECURSIVE Join(_, _)
Join(parts, sep) ==
    IF parts = <<>> THEN <<>>
    ELSE IF Len(parts) = 1 THEN parts[1]
    ELSE Join(SubSeq(parts, 1, Len(parts) - 1), sep) \o sep \o parts[Len(parts)]

\* lines 96-98: one line per checklist item
ChecklistLines(items) ==
    [k \in 1..Len(items) |->
        <<IF Field(items[k].status, None) = "completed" THEN DoneMark ELSE OpenMark,
          " ", Field(items[k].title, "")>>]

\* get_reminder_notes_from_todo as if the start annotation were appended
\* before the status annotation
NotesSectionsStartFirst(t) ==
    (IF Truthy(t.notes) THEN <<<<t.notes[1]>>>> ELSE <<>>)
    \o (IF Truthy(t.start) THEN <<<<"Start: ", t.start[1]>>>> ELSE <<>>)
    \o (IF Field(t.status, "incomplete") = "completed"
            THEN <<<<"Status: ", DoneMark, " Completed">>>>
        ELSE IF Field(t.status, "incomplete") = "canceled"
            THEN <<<<"Status: ", "U+2717", " Canceled">>>>
        ELSE <<>>)
    \o (IF Truthy(t.deadline) /\ Has(parse_things_date(t.deadline))
            THEN <<<<"Deadline: ">> \o Strftime(parse_things_date(t.deadline)[1])>>
        ELSE <<>>)
    \o (IF TruthyList(t.checklist)
            THEN <<Join(<<<<"Checklist:">>>> \o ChecklistLines(t.checklist[1]), <<"\n">>)>>
        ELSE <<>>)
    \o <<<<Footer, Field(t.uuid, "")>>>>

\* get_reminder_notes_from_todo (lines 67-103): notes_sections
NotesSections(t) ==
    (IF Truthy(t.notes) THEN <<<<t.notes[1]>>>> ELSE <<>>)
    \o (IF Field(t.status, "incomplete") = "completed"
            THEN <<<<"Status: ", DoneMark, " Completed">>>>
        ELSE IF Field(t.status, "incomplete") = "canceled"
            THEN <<<<"Status: ", "U+2717", " Canceled">>>>
        ELSE <<>>)
    \o (IF Truthy(t.start) THEN <<<<"Start: ", t.start[1]>>>> ELSE <<>>)
    \o (IF Truthy(t.deadline) /\ Has(parse_things_date(t.deadline))
            THEN <<<<"Deadline: ">> \o Strftime(parse_things_date(t.deadline)[1])>>
        ELSE <<>>)
    \o (IF TruthyList(t.checklist)
            THEN <<Join(<<<<"Checklist:">>>> \o ChecklistLines(t.checklist[1]), <<"\n">>)>>
        ELSE <<>>)
    \o <<<<Footer, Field(t.uuid, "")>>>>

\* get_reminder_notes_from_todo (line 105)
get_reminder_notes_from_todo(t) == Join(NotesSections(t), <<"\n\n">>)

\* lines 124-128 as if the 'when' date were preferred to the deadline
DueDateWhenFirst(t) ==
    IF Truthy(t.when) THEN parse_things_date(t.when)
    ELSE IF Truthy(t.deadline) THEN parse_things_date(t.deadline)
    ELSE <<>>

\* lines 124-128
DueDate(t) ==
    IF Truthy(t.deadline) THEN parse_things_date(t.deadline)
    ELSE IF Truthy(t.when) THEN parse_things_date(t.when)
    ELSE <<>>

\* line 120
TitleOf(t) == Field(t.title, "Untitled Task")

\* get_reminder_params_from_todo (lines 119-161); a key the code does not set
\* is <<>>
get_reminder_params_from_todo(t, calendar_id) ==
    LET due_date == DueDate(t)
        anytime == Truthy(t.deadline) /\ Field(t.start, None) = "Anytime"
                       /\ Has(due_date)
    IN  [title |-> TitleOf(t),
         notes |-> get_reminder_notes_from_todo(t),
         due_date |-> due_date,
         priority |-> map_priority(Field(t.priority, <<0>>)),
         calendar_id |-> calendar_id,
         tags |-> IF TruthyList(t.tags) THEN t.tags[1] ELSE <<>>,
         completed |-> IF Field(t.status, None) = "completed" THEN <<TRUE>> ELSE <<>>,
         completion_date |-> IF Field(t.status, None) = "completed"
                             THEN <<Field(t.stop_date, None)>> ELSE <<>>,
         early_reminder_date |-> IF anytime THEN <<DayBefore(due_date[1])>> ELSE <<>>,
         flagged |-> IF anytime THEN <<TRUE>> ELSE <<>>]

Opt(S) == {<<>>} \cup {<<v>> : v \in S}

ChecklistItems ==
    <<[title |-> <<"Item 1">>, status |-> <<"completed">>],
      [title |-> <<"Item 2">>, status |-> <<"incomplete">>]>>

\* values of todo['priority']: None (<<>>) or an integer
Priorities == {<<>>, <<0>>, <<1>>, <<2>>, <<3>>, <<7>>}

\* the todo dictionaries the mapper is applied to
Todos ==
    [uuid : Opt({"todo1"}),
     title : Opt({"", "Buy milk"}),
     notes : Opt({"This is a note"}),
     status : Opt({"incomplete", "completed", "canceled"}),
     start : Opt({"Anytime", "Someday"}),
     deadline : Opt({"2023-10-15T14:30:00Z", "2024-03-01", "not a date"}),
     when : Opt({"2023-03-01"}),
     priority : Opt(Priorities),
     tags : Opt({<<>>, <<"tag1", "tag2">>}),
     checklist : Opt({<<>>, ChecklistItems}),
     stop_date : Opt({"2023-10-16"})]

InitMapperRun ==
    /\ pc = "todo"
    /\ error = "none"
    /\ todos = <<>>
    /\ InitExport
    /\ InitSelect
    /\ todo \in Todos
    /\ params = None
    /\ InitClient
    /\ InitCli
    /\ InitMeta

\* one call of get_reminder_params_from_todo(todo, calendar_id)
MapTodo ==
    /\ pc = "todo"
    /\ pc' = "mapped"
    /\ \E calendar_id \in {None, "cal123"} :
         params' = get_reminder_params_from_todo(todo, calendar_id)
    /\ UNCHANGED <<error, exportVars, selectVars, todo, clientVars, cliVars, metaVars>>

NextMapper == MapTodo

SpecMapper == InitMapperRun /\ [][NextMapper]_vars

(***************************************************************************)
(* Claims about the mapper                                                 *)
(***************************************************************************)
\* C9: the parameters of every reminder-creation call carry a non-empty title
\* (a fixed placeholder when the todo has no title or an empty one) and notes
\* that contain the footer followed by the todo's identifier.
C9_TitleAndFooterAlwaysPresent ==
    (pc = "mapped")
        => /\ params.title # ""
           /\ ~Truthy(todo.title) => params.title = "Untitled Task"
           /\ \E k \in 1..(Len(params.notes) - 1) :
                /\ params.notes[k] = Footer
                /\ params.notes[k + 1] = Field(todo.uuid, "")

\* the levels of the priority table of spec section 4.4
ExpectedPriority(p) ==
    IF p = <<1>> THEN "LOW"
    ELSE IF p = <<2>> THEN "MEDIUM"
    ELSE IF p = <<3>> THEN "HIGH"
    ELSE "NONE"

\* C14: map_priority gives NONE for 0, LOW for 1, MEDIUM for 2, HIGH for 3 and
\* NONE for every other input, None and a missing priority included, and the
\* mapping never raises.
C14_PriorityTable ==
    /\ \A p \in Priorities : map_priority(p) = ExpectedPriority(p)
    /\ (pc = "mapped")
          => /\ error = "none"
             /\ params.priority \in {"NONE", "LOW", "MEDIUM", "HIGH"}
             /\ params.priority =
                  IF Has(todo.priority) THEN ExpectedPriority(todo.priority[1])
                  ELSE "NONE"

\* a todo whose priority is outside the table was mapped to NONE
C14_Witness ==
    /\ pc = "mapped"
    /\ todo.priority = <<<<7>>>>
    /\ params.priority = "NONE"

\* the text of section n of the notes for todo t, <<>> when the todo has no
\* data for it: 1 original notes, 2 status, 3 start, 4 deadline, 5 checklist,
\* 6 footer
ExpectedSection(t, n) ==
    CASE n = 1 -> IF Truthy(t.notes) THEN <<t.notes>> ELSE <<>>
      [] n = 2 -> IF t.status = <<"completed">>
                      THEN <<<<"Status: ", "U+2713", " Completed">>>>
                  ELSE IF t.status = <<"canceled">>
                      THEN <<<<"Status: ", "U+2717", " Canceled">>>>
                  ELSE <<>>
      [] n = 3 -> IF Truthy(t.start) THEN <<<<"Start: ", t.start[1]>>>> ELSE <<>>
      [] n = 4 -> IF t.deadline = <<"2023-10-15T14:30:00Z">>
                      THEN <<<<"Deadline: ", "2023", "-", "10", "-", "15">>>>
                  ELSE IF t.deadline = <<"2024-03-01">>
                      THEN <<<<"Deadline: ", "2024", "-", "0", "3", "-", "0", "1">>>>
                  ELSE <<>>
      [] n = 5 -> IF t.checklist = <<ChecklistItems>>
                      THEN <<<<"Checklist:", "\n", "U+2713", " ", "Item 1",
                               "\n", "U+2610", " ", "Item 2">>>>
                  ELSE <<>>
      [] n = 6 -> <<<<"Imported from Things - UUID: ",
                      IF Has(t.uuid) THEN t.uuid[1] ELSE "">>>>

\* sections 1..n that exist, each followed by a blank line except the last
RECURSIVE ExpectedNotes(_, _)
ExpectedNotes(t, n) ==
    IF n = 0 THEN <<>>
    ELSE LET before == ExpectedNotes(t, n - 1)
             here == ExpectedSection(t, n)
         IN  IF here = <<>> THEN before
             ELSE IF before = <<>> THEN here[1]
             ELSE before \o <<"\n\n">> \o here[1]

\* C15: the notes are the sections that exist for the todo, joined by a blank
\* line, in the order original notes, status annotation (completed or canceled
\* only), start annotation, deadline annotation, checklist block, footer; the
\* footer is always there and always last.
C15_NotesSectionsInFixedOrder ==
    (pc = "mapped")
        => /\ params.notes = ExpectedNotes(todo, 6)
           /\ Len(params.notes) >= 2
           /\ SubSeq(params.notes, Len(params.notes) - 1, Len(params.notes))
                = <<Footer, Field(todo.uuid, "")>>

\* a todo with every section
C15_Witness ==
    /\ pc = "mapped"
    /\ \A n \in 1..6 : ExpectedSection(todo, n) # <<>>

\* what datetime.fromisoformat gives for a date text: <<>> when it raises
ExpectedDate(f) ==
    IF f = <<"2023-10-15T14:30:00Z">>
        THEN <<[year |-> 2023, month |-> 10, day |-> 15, hour |-> 14, minute |-> 30]>>
    ELSE IF f = <<"2024-03-01">>
        THEN <<[year |-> 2024, month |-> 3, day |-> 1, hour |-> 0, minute |-> 0]>>
    ELSE IF f = <<"2023-03-01">>
        THEN <<[year |-> 2023, month |-> 3, day |-> 1, hour |-> 0, minute |-> 0]>>
    ELSE <<>>

\* C16: the due date is the parsed deadline when the todo has a deadline,
\* otherwise the parsed 'when' date when it has one, otherwise absent; a date
\* text that does not parse gives an absent due date and no exception.
C16_DueDateFromDeadlineThenWhen ==
    (pc = "mapped")
        => /\ error = "none"
           /\ params.due_date =
                IF Truthy(todo.deadline) THEN ExpectedDate(todo.deadline)
                ELSE IF Truthy(todo.when) THEN ExpectedDate(todo.when)
                ELSE <<>>

\* a todo whose deadline does not parse and that has a 'when' date: the due
\* date is absent
C16_Witness ==
    /\ pc = "mapped"
    /\ todo.deadline = <<"not a date">>
    /\ Has(todo.when)
    /\ params.due_date = <<>>

\* the day before the deadlines that parse
ExpectedEarlyReminder(f) ==
    IF f = <<"2023-10-15T14:30:00Z">>
        THEN <<[year |-> 2023, month |-> 10, day |-> 14, hour |-> 14, minute |-> 30]>>
    ELSE IF f = <<"2024-03-01">>
        THEN <<[year |-> 2024, month |-> 2, day |-> 29, hour |-> 0, minute |-> 0]>>
    ELSE <<>>

\* C17 as stated: every todo that has a deadline and whose start category is
\* exactly 'Anytime' gets flagged = true and an early-reminder timestamp one
\* day before the due date; for every other todo neither is set.
C17_AnytimeWithDeadlineIsFlagged ==
    (pc = "mapped")
        => IF Truthy(todo.deadline) /\ todo.start = <<"Anytime">>
           THEN /\ params.flagged = <<TRUE>>
                /\ params.early_reminder_date = ExpectedEarlyReminder(todo.deadline)
                /\ Has(params.early_reminder_date)
           ELSE /\ params.flagged = <<>>
                /\ params.early_reminder_date = <<>>

\* C17 amended: every todo whose deadline parses as a date and whose start
\* category is exactly 'Anytime' gets flagged = true and an early-reminder
\* timestamp one day before the due date; for every other todo, one whose
\* deadline text does not parse included, neither is set.
C17_AnytimeWithParsedDeadlineIsFlagged ==
    (pc = "mapped")
        => IF Has(ExpectedDate(todo.deadline)) /\ todo.start = <<"Anytime">>
           THEN /\ params.flagged = <<TRUE>>
                /\ params.due_date = ExpectedDate(todo.deadline)
                /\ params.early_reminder_date = ExpectedEarlyReminder(todo.deadline)
                /\ Has(params.early_reminder_date)
           ELSE /\ params.flagged = <<>>
                /\ params.early_reminder_date = <<>>

\* an Anytime todo due on the first day of a month was flagged, its early
\* reminder falling in the month before
C17_Witness ==
    /\ pc = "mapped"
    /\ todo.start = <<"Anytime">>
    /\ todo.deadline = <<"2024-03-01">>
    /\ params.flagged = <<TRUE>>
    /\ params.early_reminder_date # <<>>
    /\ params.early_reminder_date[1].month = 2

(***************************************************************************)
(* RemindersClient (reminders_client.py): create_reminder and              *)
(* get_default_calendar over the RemindKit object                          *)
(***************************************************************************)
DefaultCal == [id |-> "default-cal-id", name |-> "Default"]
FirstCal == [id |-> "first-cal-id", name |-> "Home"]
SecondCal == [id |-> "second-cal-id", name |-> "Work"]
NewCal == [id |-> "new-cal-id", name |-> "Things Export"]

\* the arguments of create_reminder; <<>> is None, a text is its sequence of
\* pieces (<<>> the empty text)
CreateCalls ==
    [title : {"Test Reminder"},
     notes : Opt({<<>>, <<"Test Notes">>}),
     due_date : Opt({"2023-10-15"}),
     priority : Opt({"LOW"}),
     calendar_id : Opt({"cal123"}),
     tags : Opt({<<>>, <<"tag1", "tag2">>}),
     completed : BOOL,
     completion_date : Opt({"2023-10-16"}),
     early_reminder_date : Opt({"2023-10-14"}),
     flagged : BOOL]

\* one call on the RemindKit object: its keyword arguments, the value it
\* returned (<<>> if none) and whether it raised
Called(op, kwargs, value, raised) ==
    [op |-> op, kwargs |-> kwargs, value |-> value, raised |-> raised]

\* line 141: " ".join([f"#{tag}" for tag in tags])
TagStr(tags) == Join([k \in 1..Len(tags) |-> <<"#", tags[k]>>], <<" ">>)

\* lines 136-152: structured_notes
StructuredNotes(c) ==
    LET base == IF Has(c.notes) THEN c.notes[1] ELSE <<>>
        tagged == IF TruthyList(c.tags)
                  THEN IF base # <<>>
                       THEN base \o <<"\n\n", "Tags: ">> \o TagStr(c.tags[1])
                       ELSE <<"Tags: ">> \o TagStr(c.tags[1])
                  ELSE base
    IN  IF c.completed /\ Truthy(c.completion_date)
        THEN IF tagged # <<>>
             THEN tagged \o <<"\n\n", "Completed on: ", c.completion_date[1]>>
             ELSE <<"Completed on: ", c.completion_date[1]>>
        ELSE tagged

\* lines 155-162: the keyword arguments of self.remind.create_reminder
CreateKwargs(c, calendar_id) ==
    [title |-> c.title,
     notes |-> StructuredNotes(c),
     due_date |-> c.due_date,
     priority |-> IF Has(c.priority) THEN c.priority[1] ELSE "NONE",
     calendar_id |-> calendar_id,
     is_completed |-> c.completed]

\* lines 165-189: the update_reminder calls, in order
Updates(c) ==
    (IF c.completed THEN <<[is_completed |-> TRUE]>> ELSE <<>>)
    \o (IF Has(c.early_reminder_date)
            THEN <<[remind_me_date |-> c.early_reminder_date[1]]>> ELSE <<>>)
    \o (IF c.flagged THEN <<[flagged |-> TRUE]>> ELSE <<>>)

InitClientRun ==
    /\ pc = "create_reminder"
    /\ error = "none"
    /\ todos = <<>>
    /\ InitExport
    /\ InitSelect
    /\ InitMapper
    /\ call \in CreateCalls
    /\ remind_calls = <<>>
    /\ result = <<>>
    /\ InitCli
    /\ InitMeta

ClientStep(here, next) ==
    /\ pc = here
    /\ pc' = next
    /\ UNCHANGED <<exportVars, selectVars, mapperVars, call, cliVars, metaVars>>

\* lines 132-133: a missing calendar_id is replaced by the default calendar's
ResolveCalendar ==
    /\ ClientStep("create_reminder",
                  IF Has(call.calendar_id) THEN "create" ELSE "get_default")
    /\ UNCHANGED <<error, remind_calls, result>>

\* lines 51-53: self.remind.calendars.get_default() returns, raises
\* ValueError (caught), or raises something else (not caught)
GetDefault ==
    \E outcome \in {"returned", "ValueError", "PermissionError"} :
        /\ ClientStep("get_default",
                      CASE outcome = "returned" -> "create"
                        [] outcome = "ValueError" -> "get_calendars"
                        [] OTHER -> "raised")
        /\ remind_calls' = Append(remind_calls,
              Called("get_default", EmptyMap,
                     IF outcome = "returned" THEN <<DefaultCal>> ELSE <<>>,
                     outcome # "returned"))
        /\ result' = IF outcome = "returned" THEN <<DefaultCal>> ELSE <<>>
        /\ error' = IF outcome = "PermissionError" THEN outcome ELSE error

\* what self.remind.get_calendars() may return
CalendarLists == {<<>>, <<FirstCal, SecondCal>>}

\* lines 57-64 as if the last calendar of the list were used
GetCalendarsLast ==
    \E raised \in BOOL : \E all_calendars \in CalendarLists :
        /\ raised => all_calendars = <<>>
        /\ ClientStep("get_calendars",
                      IF all_calendars # <<>> THEN "create" ELSE "create_calendar")
        /\ remind_calls' = Append(remind_calls,
              Called("get_calendars", EmptyMap, all_calendars, raised))
        /\ result' = IF all_calendars # <<>>
                     THEN <<all_calendars[Len(all_calendars)]>> ELSE <<>>
        /\ UNCHANGED error

\* lines 57-64: the first calendar of a non-empty list; an exception is logged
GetCalendars ==
    \E raised \in BOOL : \E all_calendars \in CalendarLists :
        /\ raised => all_calendars = <<>>
        /\ ClientStep("get_calendars",
                      IF all_calendars # <<>> THEN "create" ELSE "create_calendar")
        /\ remind_calls' = Append(remind_calls,
              Called("get_calendars", EmptyMap, all_calendars, raised))
        /\ result' = IF all_calendars # <<>> THEN <<all_calendars[1]>> ELSE <<>>
        /\ UNCHANGED error

\* lines 67-77: create a calendar; when that raises too, raise ValueError
CreateCalendar ==
    \E raised \in BOOL :
        /\ ClientStep("create_calendar", IF raised THEN "raised" ELSE "create")
        /\ remind_calls' = Append(remind_calls,
              Called("create_calendar", [name |-> "Things Export"],
                     IF raised THEN <<>> ELSE <<NewCal>>, raised))
        /\ result' = IF raised THEN <<>> ELSE <<NewCal>>
        /\ error' = IF raised THEN "ValueError" ELSE error

\* lines 155-162: self.remind.create_reminder(...); its exception is not caught
CreateUnderlying ==
    \E raised \in BOOL :
        /\ ClientStep("create", IF raised THEN "raised" ELSE "update")
        /\ remind_calls' = Append(remind_calls,
              Called("create_reminder",
                     CreateKwargs(call, IF Has(call.calendar_id)
                                        THEN call.calendar_id[1] ELSE result[1].id),
                     IF raised THEN <<>> ELSE <<[id |-> "reminder1"]>>, raised))
        /\ result' = IF raised THEN <<>> ELSE <<[id |-> "reminder1"]>>
        /\ error' = IF raised THEN "RuntimeError" ELSE error

\* lines 165-193 as if each update had its own try statement: all are made,
\* whichever raises
UpdateReminderEachTried ==
    \E failed \in 0..Len(Updates(call)) :
        /\ ClientStep("update", "returned")
        /\ remind_calls' = remind_calls \o
              [k \in 1..Len(Updates(call)) |->
                  Called("update_reminder", Updates(call)[k], <<>>, k = failed)]
        /\ UNCHANGED <<error, result>>

\* lines 165-193: the updates are made in order until one raises (logged);
\* the reminder is returned
UpdateReminder ==
    \E made \in 0..Len(Updates(call)) : \E raised \in BOOL :
        /\ Updates(call) # <<>> => made >= 1
        /\ raised => made >= 1
        /\ ~raised => made = Len(Updates(call))
        /\ ClientStep("update", "returned")
        /\ remind_calls' = remind_calls \o
              [k \in 1..made |->
                  Called("update_reminder", Updates(call)[k], <<>>,
                         raised /\ k = made)]
        /\ UNCHANGED <<error, result>>

NextClient ==
    \/ ResolveCalendar
    \/ GetDefault
    \/ GetCalendars
    \/ CreateCalendar
    \/ CreateUnderlying
    \/ UpdateReminder

SpecClient == InitClientRun /\ [][NextClient]_vars

(***************************************************************************)
(* Claims about RemindersClient                                            *)
(***************************************************************************)
CallsOf(ops) == SelectSeq(remind_calls, LAMBDA c : c.op \in ops)

\* C18: create_reminder calls the underlying creation exactly once, with
\* exactly the arguments title, notes, due_date, priority and calendar_id,
\* each as it was given, except that with tags the notes are the given notes,
\* a blank line and 'Tags: ' followed by the tags as '#tag' separated by
\* single spaces.
C18_CreateForwardsFiveArguments ==
    (pc \in {"update", "returned"})
        => LET made == CallsOf({"create_reminder"})
           IN  /\ Len(made) = 1
               /\ DOMAIN made[1].kwargs
                    = {"title", "notes", "due_date", "priority", "calendar_id"}
               /\ made[1].kwargs.title = call.title
               /\ made[1].kwargs.due_date = call.due_date
               /\ <<made[1].kwargs.priority>> = call.priority
               /\ <<made[1].kwargs.calendar_id>> = call.calendar_id
               /\ IF TruthyList(call.tags)
                  THEN /\ Has(call.notes)
                       /\ made[1].kwargs.notes =
                            call.notes[1] \o <<"\n\n", "Tags: ">> \o TagStr(call.tags[1])
                  ELSE <<made[1].kwargs.notes>> = call.notes

LookupOps == {"get_default", "get_calendars", "create_calendar"}

\* C19: get_default_calendar returns the service's default calendar when
\* there is one; otherwise the first calendar of a non-empty calendar list;
\* otherwise a newly created calendar; it raises the 'could not find or
\* create' ValueError only after the three attempts failed, in that order,
\* and no attempt is made after one succeeded.
C19_DefaultThenFirstThenCreated ==
    LET tried == CallsOf(LookupOps)
        n == Len(tried)
    IN  /\ \A k \in 1..n :
             /\ tried[k].op = <<"get_default", "get_calendars", "create_calendar">>[k]
             /\ k < n => tried[k].value = <<>>
        /\ (pc = "create" /\ ~Has(call.calendar_id))
              => /\ n >= 1
                 /\ n = 1 => result = <<DefaultCal>> /\ ~tried[1].raised
                 /\ n = 2 => result = <<tried[2].value[1]>> /\ result = <<FirstCal>>
                 /\ n = 3 => result = <<NewCal>> /\ ~tried[3].raised
        /\ (error = "ValueError")
              => /\ pc = "raised"
                 /\ n = 3
                 /\ \A k \in 1..3 : tried[k].value = <<>>
                 /\ tried[1].raised /\ tried[3].raised
                 /\ CallsOf({"create_reminder"}) = <<>>

\* no default calendar, a list of two calendars: the first one is returned
C19_Witness ==
    /\ pc = "create"
    /\ Len(CallsOf(LookupOps)) = 2
    /\ Len(CallsOf(LookupOps)[2].value) = 2
    /\ result = <<FirstCal>>

\* 1 for the update that marks completed, 2 for the early reminder, 3 for
\* the flag
UpdateKind(c) ==
    IF "is_completed" \in DOMAIN c.kwargs THEN 1
    ELSE IF "remind_me_date" \in DOMAIN c.kwargs THEN 2
    ELSE 3

\* the updates the arguments of create_reminder ask for
WantedKinds ==
    (IF call.completed THEN {1} ELSE {})
        \cup (IF Has(call.early_reminder_date) THEN {2} ELSE {})
        \cup (IF call.flagged THEN {3} ELSE {})

Args ==
    [skip_checks : BOOL, all : BOOL, completed : BOOL, canceled : BOOL,
     with_deadlines : BOOL, today : BOOL, inbox : BOOL, upcoming : BOOL,
     someday : BOOL, completed_last : {None, "7d"}, tag : {None, "work"}]

\* lines 123-133: the dictionary of export options
ExportOptions(a) ==
    [include_completed |-> a.completed, include_canceled |-> a.canceled,
     only_with_deadlines |-> a.with_deadlines, only_today |-> a.today,
     only_inbox |-> a.inbox, only_upcoming |-> a.upcoming,
     only_someday |-> a.someday, completed_last |-> a.completed_last,
     filter_tag |-> a.tag]

\* the options that are flags, and those that are a text or None
FlagKeys ==
    {"include_completed", "include_canceled", "only_with_deadlines",
     "only_today", "only_inbox", "only_upcoming", "only_someday"}
TextKeys == {"completed_last", "filter_tag"}

\* line 136: {k: v for k, v in export_options.items() if v}
Specified(o) ==
    [k \in {key \in FlagKeys : o[key]}
              \cup {key \in TextKeys : o[key] # None /\ o[key] # ""} |-> o[k]]

\* lines 116-143: the exporter method main calls and its keyword arguments
ChosenEntry(a) ==
    IF a.all THEN [method |-> "export_all_tasks", kwargs |-> EmptyMap]
    ELSE IF DOMAIN Specified(ExportOptions(a)) # {}
         THEN [method |-> "export_with_options",
               kwargs |-> Specified(ExportOptions(a))]
         ELSE [method |-> "export_all", kwargs |-> EmptyMap]

\* how the exporter call may end: it returns its counts, or it raises
\* PermissionError, the ValueError of get_default_calendar, another
\* ValueError, or any other exception (the NameError of export_todos)
ExportOutcomes ==
    {"returned", "PermissionError", "ValueError: no calendar", "ValueError",
     "NameError"}

\* lines 151-176 as if the missing-calendar branch did not return 1
ReturnCodeCalendarIgnored(outcome) ==
    IF outcome \in {"returned", "ValueError: no calendar"} THEN 0 ELSE 1

\* lines 151-176: return 0 after the try body, 1 in every except clause
ReturnCode(outcome) ==
    CASE outcome = "returned" -> 0
      [] outcome = "PermissionError" -> 1
      [] outcome = "ValueError: no calendar" -> 1
      [] outcome = "ValueError" -> 1
      [] OTHER -> 1

InitCliRun ==
    /\ pc = "parse_args"
    /\ error = "none"
    /\ todos = <<>>
    /\ InitExport
    /\ InitSelect
    /\ InitMapper
    /\ InitClient
    /\ args = None
    /\ checked = None
    /\ entry = <<>>
    /\ exit_code = <<>>
    /\ InitMeta

\* line 102: parse_args() returns the namespace, or argparse leaves main with
\* SystemExit (--help, an option it does not know, a missing value)
ParseArgs ==
    /\ pc = "parse_args"
    /\ \/ /\ args' \in Args
          /\ pc' = "check"
          /\ UNCHANGED error
       \/ /\ error' = "SystemExit"
          /\ pc' = "raised"
          /\ UNCHANGED args
    /\ UNCHANGED <<exportVars, selectVars, mapperVars, clientVars, checked,
                   entry, exit_code, metaVars>>

\* lines 108-114: check_reminders_setup() catches every exception and
\* returns a truth value; --skip-checks skips it
CheckSetup ==
    /\ pc = "check"
    /\ \E ok \in BOOL :
         /\ checked' = IF args.skip_checks THEN "skipped"
                       ELSE IF ok THEN "passed" ELSE "failed"
         /\ pc' = IF args.skip_checks \/ ok THEN "export" ELSE "exit"
         /\ exit_code' = IF args.skip_checks \/ ok THEN exit_code ELSE <<1>>
    /\ UNCHANGED <<error, exportVars, selectVars, mapperVars, clientVars,
                   args, entry, metaVars>>

\* lines 116-176: the try statement
RunExport ==
    /\ pc = "export"
    /\ \E outcome \in ExportOutcomes :
         /\ entry' = <<[method |-> ChosenEntry(args).method,
                        kwargs |-> ChosenEntry(args).kwargs,
                        outcome |-> outcome]>>
         /\ exit_code' = <<ReturnCode(outcome)>>
    /\ pc' = "exit"
    /\ UNCHANGED <<error, exportVars, selectVars, mapperVars, clientVars,
                   args, checked, metaVars>>

NextCli ==
    \/ ParseArgs
    \/ CheckSetup
    \/ RunExport

SpecCli == InitCliRun /\ [][NextCli]_vars

(***************************************************************************)
(* Claims about cli.main                                                   *)
(***************************************************************************)
\* what main returns, given how the setup check and the exporter call went
ExitCodeAsClaimed ==
    (pc = "exit")
        => /\ exit_code \in {<<0>>, <<1>>}
           /\ (exit_code = <<0>>)
                 <=> /\ checked \in {"skipped", "passed"}
                     /\ entry # <<>>
                     /\ entry[1].outcome = "returned"
           /\ (checked = "failed") => (exit_code = <<1>> /\ entry = <<>>)
           /\ (entry # <<>> /\ entry[1].outcome # "returned")
                 => exit_code = <<1>>
           /\ (entry # <<>>) => checked \in {"skipped", "passed"}

\* C20 as stated: main returns 0 if and only if the setup check passed or was
\* skipped and the exporter call returned without raising; it returns 1 when
\* the setup check fails, no exporter call being made, and when the exporter
\* call raises a permission error, a missing-calendar error or any other
\* exception; no exception leaves main.
C20_ExitCodeZeroIffExportReturned ==
    /\ ExitCodeAsClaimed
    /\ error = "none"
    /\ pc # "raised"

\* C20 amended: for a command line parse_args accepts, main returns 0 if and
\* only if the setup check passed or was skipped and the exporter call
\* returned without raising, and 1 when the setup check fails (no exporter
\* call being made) or the exporter call raises a permission error, a
\* missing-calendar error or any other exception, none of which leaves main;
\* the only exception that leaves main is the SystemExit of parse_args,
\* before the setup check and before any exporter call.
C20_ExitCodeAfterAcceptedCommandLine ==
    /\ ExitCodeAsClaimed
    /\ error \in {"none", "SystemExit"}
    /\ (pc # "exit") => exit_code = <<>>
    /\ (pc = "raised" \/ error = "SystemExit")
          => /\ pc = "raised" /\ error = "SystemExit"
             /\ args = None
             /\ checked = None
             /\ entry = <<>>
    /\ (pc \in {"check", "export", "exit"}) => (args \in Args /\ error = "none")

\* the check passed and the exporter call ended with the missing-calendar
\* error: main returned 1
C20_Witness ==
    /\ pc = "exit"
    /\ checked = "passed"
    /\ entry # <<>>
    /\ entry[1].outcome = "ValueError: no calendar"
    /\ exit_code = <<1>>

(***************************************************************************)
(* Claims about the command line and the selection together                *)
(***************************************************************************)
\* the command line that asks for the options o (cli.py lines 123-133)
CliArgs(o) ==
    [skip_checks |-> FALSE, all |-> FALSE,
     completed |-> o.include_completed, canceled |-> o.include_canceled,
     with_deadlines |-> o.only_with_deadlines, today |-> o.only_today,
     inbox |-> o.only_inbox, upcoming |-> o.only_upcoming,
     someday |-> o.only_someday, completed_last |-> o.completed_last,
     tag |-> o.filter_tag]

\* --completed-last PERIOD and nothing else
OnlyPeriod ==
    /\ opts.completed_last # None
    /\ opts.filter_tag = None
    /\ \A key \in FlagKeys : ~opts[key]

MaxLoads == 4

\* what things.get_areas() and things.get_projects() may return at
\* different times: an item may be renamed or deleted, another created
ItemCatalogs ==
    {<<>>,
     <<[uuid |-> "u1", title |-> "Home"]>>,
     <<[uuid |-> "u1", title |-> "House"], [uuid |-> "u2", title |-> "Work"]>>}

\* lines 60-63 and 80-83: for item in items: self._map[item.get('uuid')] = item
RECURSIVE StoreItems(_, _)
StoreItems(map, items) ==
    IF items = <<>> THEN map
    ELSE Put(StoreItems(map, SubSeq(items, 1, Len(items) - 1)),
             items[Len(items)].uuid, items[Len(items)])

\* lines 97-100: self._tag_map[tag.get('uuid')] = tag.get('title', ...)
RECURSIVE StoreTags(_, _)
StoreTags(map, tags) ==
    IF tags = <<>> THEN map
    ELSE Put(StoreTags(map, SubSeq(tags, 1, Len(tags) - 1)),
             tags[Len(tags)].uuid, tags[Len(tags)].title)

InitMetadataRun ==
    /\ pc = "loading"
    /\ error = "none"
    /\ todos = <<>>
    /\ InitExport
    /\ InitSelect
    /\ InitMapper
    /\ InitClient
    /\ InitCli
    /\ InitMeta

MetadataStep(name) ==
    /\ pc = "loading"
    /\ Len(things_calls) < MaxLoads
    /\ things_calls' = Append(things_calls, name)
    /\ UNCHANGED <<pc, error, exportVars, opts, todos_to_export, todo_uuids,
                   fetched, offered, queried, mapperVars, clientVars, cliVars>>

\* lines 57-65: the source is queried at every call
process_areas ==
    /\ MetadataStep("get_areas")
    /\ \E areas \in ItemCatalogs : area_map' = StoreItems(area_map, areas)
    /\ UNCHANGED <<project_map, tag_map>>

\* lines 77-85: the source is queried at every call
process_projects ==
    /\ MetadataStep("get_projects")
    /\ \E projects \in ItemCatalogs :
         project_map' = StoreItems(project_map, projects)
    /\ UNCHANGED <<area_map, tag_map>>

\* lines 94-102: the source is queried at every call
process_tags ==
    /\ MetadataStep("get_tags")
    /\ \E tags \in TagCatalogs : tag_map' = StoreTags(tag_map, tags)
    /\ UNCHANGED <<area_map, project_map>>

NextMetadata ==
    \/ process_areas
    \/ process_projects
    \/ process_tags

SpecMetadata == InitMetadataRun /\ [][NextMetadata]_vars

(***************************************************************************)
(* Claims about metadata loading                                           *)
(***************************************************************************)
\* number of times the source was asked for name
TimesQueried(name) ==
    Cardinality({k \in 1..Len(things_calls) : things_calls[k] = name})

\* C21: metadata loading is idempotent: however often areas, projects and
\* tags are loaded on one exporter, the source is asked for each of them at
\* most once; a further load gives the cached map and makes no query.
C21_MetadataFetchedOnce ==
    \A name \in {"get_areas", "get_projects", "get_tags"} :
        TimesQueried(name) <= 1

=============================================================================
